---- MODULE Spec2Model ----
(***************************************************************************)
(* The VideoCreator component (src/src/components/VideoCreator.tsx) as a   *)
(* state machine: the component's React state, the animationRef, and one   *)
(* record per call of generateVideo holding the position of that call and  *)
(* the resources createVideoWithAudio acquired for it.                     *)
(*                                                                         *)
(* One action is one task of the browser's event loop: a user event        *)
(* handler, a timer, an image/decode completion, an animation frame or an  *)
(* encoder event, together with the promise continuations (microtasks) and *)
(* the React re-render and effect cleanup that the task triggers.          *)
(***************************************************************************)
EXTENDS Integers, Sequences, FiniteSets, TLC

\* ---------------------------------------------------------------- bounds
MaxRuns == 2          \* calls of generateVideo that pass validation
MaxDuration == 2      \* decoded audio duration, in clock units
TickInterval == 2     \* largest gap between two animation frames, in clock units
MaxChunks == 1        \* timeslice chunks kept per capture before the last one
MaxChunkSize == 1     \* largest chunk size; 0 is an empty chunk
MaxEffects == 1       \* length of overlayEffects
MaxNow == 1           \* largest value Date.now() returns
EditorMaxEffects == 2 \* length of overlayEffects when only the effect editor runs
EditorMaxNow == 2     \* largest value Date.now() returns there
PaintDuration == 4    \* decoded audio duration where only the painting runs
EncodeMaxChunks == 3   \* timeslice chunks per capture where only the encoder varies
EncodeMaxChunkSize == 2  \* largest chunk size there
BatchMaxCalls == 2    \* calls of addOverlayEffect one event handler makes
BatchMaxNow == 4      \* largest value Date.now() returns where handlers batch

\* The clock unit is a quarter of the 3-second cycle of applyEffectAnimation
\* (0.75 s): `elapsed % 3 / 3` is (elapsed % CycleUnits) quarters.
CycleUnits == 4

Runs == 1..MaxRuns

\* ------------------------------------------------------------ input values
\* useState<File | null>(null): no file selected yet
NoFile == "null"
\* a File whose content loads/decodes, and the `new File([], "")` that
\* clearImage / clearAudio pass, whose content does not. (A corrupt file of
\* the right MIME type fails like the empty one; the code does not tell
\* them apart.)
Files == {"good", "empty"}
\* OverlayEffect['type'] and OverlayEffect['animation']
EffectTypes == {"text", "shape", "image", "soundwave", "sparkle"}
Animations == {"none", "pulse", "slide", "rotate"}
\* the kinds and animations used where the whole component is explored
CaptureEffectTypes == {"text", "soundwave"}
CaptureAnimations == {"none", "pulse"}

\* progressSteps[i].step
ProgressSteps == <<10, 25, 40, 60, 80, 100>>

VARIABLES
    mounted,            \* the component is mounted
    selectedImage, selectedAudio, imagePreview, audioPreview,
    isGenerating, generationProgress,
    generatedVideo,     \* 0 (null) or the run that produced the video shown
    videoHistory,       \* sequence of runs, newest first
    overlayEffects, selectedEffect,
    animationRef,       \* 0, or r: the id of the frame run r requested last
    now,                \* last value returned by Date.now()
    runs,               \* one record per call of generateVideo
    nRuns,              \* calls of generateVideo that passed validation
    lastToast,          \* the last toast.error generateVideo showed
    audioAnalyser,      \* audioAnalyser and audioDataArray: "null", "set"
                        \*   or "disconnected" (set, disconnect() called)
    audioElement        \* the <audio> element of the preview: "none",
                        \*   "fresh", or "tapped" (a source was made of it)

vars == <<mounted, selectedImage, selectedAudio, imagePreview, audioPreview,
          isGenerating, generationProgress, generatedVideo,
          videoHistory, overlayEffects, selectedEffect, animationRef, now,
          runs, nRuns, lastToast, audioAnalyser, audioElement>>

ui == <<selectedImage, selectedAudio, imagePreview, audioPreview,
        overlayEffects, selectedEffect, now, audioAnalyser, audioElement>>

\* selectedEffect = null
NoEffect == [id |-> "", type |-> "none"]

\* a string field of an effect that was never assigned
Undefined == "undefined"

\* the record of a call that has not been made yet
EmptyRun ==
    [gen |-> "none",        \* generateVideo: none, progress, capture, done
     step |-> 0,            \* progress steps shown
     cap |-> "none",        \* createVideoWithAudio: none, imgLoad, decode,
                            \*   rendering, stopping, resolved, rejected
     img |-> NoFile, aud |-> NoFile,   \* the closure's files, until read
     fx |-> <<>>,           \* overlayEffects of the closure
     analyser |-> "null",   \* audioAnalyser / audioDataArray of the closure:
                            \*   "null", or "set" for an analyser
     imgUrl |-> "none",     \* URL.createObjectURL(imageFile): none, live, revoked
     audioCtx |-> "none",   \* none, open
     source |-> "none",     \* audioSource: none, connected, started, disconnected
     recorder |-> "none",   \* none, inactive, recording, stopping, stopped
     rafPending |-> FALSE,  \* a requestAnimationFrame(animate) is pending
     duration |-> 0,        \* audioDuration
     elapsed |-> 0,         \* elapsed of the last call of animate
     ticks |-> 0,           \* calls of animate that painted
     stops |-> 0,           \* calls of mediaRecorder.stop()
     chunks |-> <<>>,       \* sizes of the chunks pushed
     emitted |-> <<>>,      \* sizes of the chunks the encoder has emitted
     log |-> <<>>,          \* order of encoder start, audio start, first paint
     drawn |-> <<>>,        \* what the last paint drew for each effect
     blobSize |-> -1,       \* videoBlob.size once resolved
     blob |-> <<>>,         \* the parts of videoBlob, in order
     reported |-> -1,       \* the duration resolved with
     videoUrl |-> "none",   \* URL.createObjectURL(videoBlob): none, live, revoked
     errToasts |-> 0,       \* error notifications shown for this call
     cancelled |-> FALSE]   \* the component was unmounted while Rendering

Init ==
    /\ mounted = TRUE
    /\ selectedImage = NoFile /\ selectedAudio = NoFile
    /\ imagePreview = "" /\ audioPreview = ""
    /\ isGenerating = FALSE /\ generationProgress = 0
    /\ generatedVideo = 0 /\ videoHistory = <<>>
    /\ overlayEffects = <<>> /\ selectedEffect = NoEffect
    /\ animationRef = 0
    /\ now = 1
    /\ runs = [r \in Runs |-> EmptyRun]
    /\ nRuns = 0
    /\ lastToast = "none"
    /\ audioAnalyser = "null"
    /\ audioElement = "none"

\* ---------------------------------------------------------------- helpers
Range(s) == {s[i] : i \in 1..Len(s)}

RECURSIVE SumSeq(_)
\* Blob.size of new Blob(chunks): the sizes add up
SumSeq(s) == IF s = <<>> THEN 0 ELSE Head(s) + SumSeq(Tail(s))

RECURSIVE FilterSeq(_, _)
\* Array.prototype.filter: the elements of s that are in keep, in order
FilterSeq(s, keep) ==
    IF s = <<>> THEN <<>>
    ELSE IF Head(s) \in keep THEN <<Head(s)>> \o FilterSeq(Tail(s), keep)
    ELSE FilterSeq(Tail(s), keep)

\* cancelAnimationFrame(animationRef.current): the frame named by the ref, if it
\* is still pending, is removed; any other value of the ref is a no-op
cancelAnimationFrame(rs, ref) ==
    IF ref \in Runs THEN [rs EXCEPT ![ref].rafPending = FALSE] ELSE rs

\* URL.revokeObjectURL(video.videoUrl) for the videos of S
revokeVideos(rs, S) ==
    [r \in Runs |->
        IF r \in S /\ rs[r].videoUrl = "live"
        THEN [rs[r] EXCEPT !.videoUrl = "revoked"] ELSE rs[r]]

\* The cleanup of the effect at the end of the component. React runs it with
\* the values of the render that installed it (the unprimed variables here)
\* when a dependency changes and when the component unmounts.
effectCleanup(rs) ==
    cancelAnimationFrame(
        revokeVideos(rs, (IF generatedVideo # 0 THEN {generatedVideo} ELSE {})
                            \cup Range(videoHistory)),
        animationRef)

\* ------------------------------------------------------------ user events
\* ImageUpload.handleFiles / clearImage -> handleImageSelect(file, preview)
handleImageSelect(f) ==
    /\ mounted
    /\ selectedImage' = f
    /\ imagePreview' = (IF f = "empty" THEN "" ELSE f)
    /\ IF imagePreview' # imagePreview
       THEN runs' = effectCleanup(runs)
       ELSE UNCHANGED runs
    /\ UNCHANGED <<mounted, selectedAudio, audioPreview, isGenerating,
                   generationProgress, generatedVideo, videoHistory,
                   overlayEffects, selectedEffect, animationRef, now, nRuns,
                   lastToast,
                   audioAnalyser, audioElement>>

\* The cleanup of the two effects that call setupAudioAnalysis. The second
\* has audioAnalyser among its dependencies, so its cleanup holds the
\* analyser of the last render: if (audioAnalyser) audioAnalyser.disconnect().
\* The state keeps the analyser.
analysisCleanup(analyser) ==
    IF analyser = "null" THEN "null" ELSE "disconnected"

\* AudioUpload.handleFiles / clearAudio -> handleAudioSelect(file, preview);
\* handleFiles passes a fresh object URL, clearAudio passes "". The render
\* that follows keeps the <audio> element while there is a preview, removes
\* it with the preview and makes a new one for a preview after none; the
\* effects on audioPreview clean up and call setupAudioAnalysis again.
handleAudioSelect(f) ==
    /\ mounted
    /\ selectedAudio' = f
    /\ audioPreview' = (IF f = "empty" THEN "" ELSE "url")
    /\ audioElement' = (IF f = "empty" THEN "none"
                        ELSE IF audioElement = "none" THEN "fresh"
                        ELSE audioElement)
    /\ IF audioPreview = "" /\ f = "empty"
       THEN UNCHANGED <<runs, audioAnalyser>>
       ELSE /\ runs' = effectCleanup(runs)
            /\ audioAnalyser' = analysisCleanup(audioAnalyser)
    /\ UNCHANGED <<mounted, selectedImage, imagePreview, isGenerating,
                   generationProgress, generatedVideo, videoHistory,
                   overlayEffects, selectedEffect, animationRef, now, nRuns,
                   lastToast>>

\* the object addOverlayEffect builds without the switch on type
newEffect_noDefaults(type, id) ==
    [type |-> type, id |-> id, x |-> 50, y |-> 50, opacity |-> 80,
     color |-> "#ffffff", animation |-> "none",
     text |-> Undefined, fontSize |-> 0, fontFamily |-> Undefined,
     shape |-> Undefined, size |-> 0, imageUrl |-> Undefined,
     soundwaveColor |-> Undefined, soundwaveThickness |-> 0,
     sparkleDensity |-> 0, sparkleSize |-> 0]

\* The object addOverlayEffect builds: the literal, then the defaults of the
\* switch on type. opacity is in hundredths. An optional field that was not
\* assigned is Undefined (strings) or 0 (numbers: the code reads those
\* through truthiness, and every slider that sets one has a minimum >= 1).
newEffect(type, id) ==
    LET base == [type |-> type, id |-> id, x |-> 50, y |-> 50, opacity |-> 80,
                 color |-> "#ffffff", animation |-> "none",
                 text |-> Undefined, fontSize |-> 0, fontFamily |-> Undefined,
                 shape |-> Undefined, size |-> 0, imageUrl |-> Undefined,
                 soundwaveColor |-> Undefined, soundwaveThickness |-> 0,
                 sparkleDensity |-> 0, sparkleSize |-> 0]
    IN CASE type = "text" ->
              [base EXCEPT !.text = "Your Text Here", !.fontSize = 24,
                           !.fontFamily = "Arial"]
         [] type = "shape" ->
              [base EXCEPT !.shape = "circle", !.size = 50]
         [] type = "image" ->
              [base EXCEPT !.imageUrl = ""]
         [] type = "soundwave" ->
              [base EXCEPT !.soundwaveColor = "#00ffff",
                           !.soundwaveThickness = 2]
         [] type = "sparkle" ->
              [base EXCEPT !.sparkleDensity = 50, !.sparkleSize = 3,
                           !.color = "#ffff00"]

\* addOverlayEffect(type) called d clock units after the last Date.now()
addOverlayEffect(type, d) ==
    /\ mounted
    /\ now' = now + d
    /\ LET new == newEffect(type, ToString(now'))
       IN /\ overlayEffects' = Append(overlayEffects, new)
          /\ selectedEffect' = new
    /\ runs' = effectCleanup(runs)
    /\ UNCHANGED <<mounted, selectedImage, selectedAudio, imagePreview,
                   audioPreview, isGenerating, generationProgress,
                   generatedVideo, videoHistory, animationRef, nRuns,
                   lastToast,
                   audioAnalyser, audioElement>>

\* addOverlayEffect called once for each element of types by one event
\* handler, before React renders again, each call one clock unit after the
\* one before. Every call passes [...overlayEffects, newEffect] built from
\* the overlayEffects of the same render to setOverlayEffects; the values of
\* the last setOverlayEffects and setSelectedEffect are the next state.
addOverlayEffectCalls(types) ==
    /\ mounted
    /\ types # <<>>
    /\ now' = now + Len(types)
    /\ LET new == newEffect(types[Len(types)], ToString(now'))
       IN /\ overlayEffects' = Append(overlayEffects, new)
          /\ selectedEffect' = new
    /\ runs' = effectCleanup(runs)
    /\ UNCHANGED <<mounted, selectedImage, selectedAudio, imagePreview,
                   audioPreview, isGenerating, generationProgress,
                   generatedVideo, videoHistory, animationRef, nRuns,
                   lastToast, audioAnalyser, audioElement>>

\* { ...effect, ...updates }
merge(effect, updates) ==
    [f \in DOMAIN effect |->
        IF f \in DOMAIN updates THEN updates[f] ELSE effect[f]]

\* The updates the Effect Settings panel passes for the selected effect e,
\* one value per control: the position slider (the Y slider writes y as the
\* X slider writes x), the opacity slider and the animation buttons of
\* every kind, then the controls of e's kind (the text box, the shape
\* buttons and the size slider, the image picker, the thickness and density
\* sliders). No control passes an id or a type.
PanelUpdates(e) ==
    {[x |-> 10], [opacity |-> 40]}
    \cup {[animation |-> a] : a \in Animations}
    \cup (IF e.type = "text" THEN {[text |-> ""]} ELSE {})
    \cup (IF e.type = "shape"
          THEN {[shape |-> "square"]}
               \cup (IF e.size # 0 THEN {[size |-> 100]} ELSE {})
          ELSE {})
    \cup (IF e.type = "image" THEN {[imageUrl |-> "blob:overlay"]} ELSE {})
    \cup (IF e.type = "soundwave" THEN {[soundwaveThickness |-> 5]} ELSE {})
    \cup (IF e.type = "sparkle" THEN {[sparkleDensity |-> 10]} ELSE {})

\* updateEffect that maps the updates over every effect
updateEffect_everyEffect(id, updates) ==
    /\ mounted
    /\ overlayEffects' =
          [i \in 1..Len(overlayEffects) |-> merge(overlayEffects[i], updates)]
    /\ selectedEffect' =
          (IF selectedEffect # NoEffect /\ selectedEffect.id = id
           THEN merge(selectedEffect, updates) ELSE selectedEffect)
    /\ runs' = effectCleanup(runs)
    /\ UNCHANGED <<mounted, selectedImage, selectedAudio, imagePreview,
                   audioPreview, isGenerating, generationProgress,
                   generatedVideo, videoHistory, animationRef, now, nRuns,
                   lastToast,
                   audioAnalyser, audioElement>>

\* updateEffect(id, updates)
updateEffect(id, updates) ==
    /\ mounted
    /\ overlayEffects' =
          [i \in 1..Len(overlayEffects) |->
              IF overlayEffects[i].id = id
              THEN merge(overlayEffects[i], updates)
              ELSE overlayEffects[i]]
    /\ selectedEffect' =
          (IF selectedEffect # NoEffect /\ selectedEffect.id = id
           THEN merge(selectedEffect, updates) ELSE selectedEffect)
    /\ runs' = effectCleanup(runs)
    /\ UNCHANGED <<mounted, selectedImage, selectedAudio, imagePreview,
                   audioPreview, isGenerating, generationProgress,
                   generatedVideo, videoHistory, animationRef, now, nRuns,
                   lastToast,
                   audioAnalyser, audioElement>>

\* the trash button of effect card i: removeEffect(effect.id)
removeEffect(i) ==
    /\ mounted
    /\ i \in 1..Len(overlayEffects)
    /\ LET id == overlayEffects[i].id
           keep == {e \in Range(overlayEffects) : e.id # id}
       IN /\ overlayEffects' = FilterSeq(overlayEffects, keep)
          /\ selectedEffect' =
                (IF selectedEffect # NoEffect /\ selectedEffect.id = id
                 THEN NoEffect ELSE selectedEffect)
    /\ runs' = effectCleanup(runs)
    /\ UNCHANGED <<mounted, selectedImage, selectedAudio, imagePreview,
                   audioPreview, isGenerating, generationProgress,
                   generatedVideo, videoHistory, animationRef, now, nRuns,
                   lastToast,
                   audioAnalyser, audioElement>>

\* click on effect card i: setSelectedEffect(effect)
selectEffect(i) ==
    /\ mounted
    /\ i \in 1..Len(overlayEffects)
    /\ selectedEffect' = overlayEffects[i]
    /\ UNCHANGED <<mounted, selectedImage, selectedAudio, imagePreview,
                   audioPreview, isGenerating,
                   generationProgress, generatedVideo, videoHistory,
                   overlayEffects, animationRef, now, runs, nRuns, lastToast,
                   audioAnalyser, audioElement>>

\* delete button of the preview or of a history card
handleDelete(v) ==
    /\ mounted
    /\ v \in Range(videoHistory) \cup ({generatedVideo} \ {0})
    /\ videoHistory' = FilterSeq(videoHistory, Range(videoHistory) \ {v})
    /\ generatedVideo' = (IF generatedVideo = v THEN 0 ELSE generatedVideo)
    /\ runs' = effectCleanup(revokeVideos(runs, {v}))
    /\ UNCHANGED <<mounted, selectedImage, selectedAudio, imagePreview,
                   audioPreview, isGenerating, generationProgress,
                   overlayEffects, selectedEffect, animationRef, now, nRuns,
                   lastToast,
                   audioAnalyser, audioElement>>

\* setupAudioAnalysis, started by the effects on audioPreview once the
\* <audio> element is rendered, reaches its end: with ok (the platform
\* gave an audio context) on an element no source was made of yet, it
\* connects a new analyser and sets it and its data array. Otherwise
\* createMediaElementSource throws (an element feeds one source node only),
\* the catch reports the failure and nothing is set: the later calls the
\* two effects make for the same element all end there.
setupAudioAnalysis(ok) ==
    /\ mounted
    /\ audioPreview # ""
    /\ audioElement = "fresh"
    /\ ok
    /\ audioAnalyser' = "set"
    /\ audioElement' = "tapped"
    /\ UNCHANGED <<mounted, selectedImage, selectedAudio, imagePreview,
                   audioPreview, isGenerating, generationProgress,
                   generatedVideo, videoHistory, overlayEffects,
                   selectedEffect, animationRef, now, runs, nRuns, lastToast>>

\* the component is removed from the page: the effect cleanups run once
\* more
Unmount ==
    /\ mounted
    /\ mounted' = FALSE
    /\ runs' = [r \in Runs |->
                  [effectCleanup(runs)[r] EXCEPT
                      !.cancelled = @ \/ runs[r].cap = "rendering"]]
    /\ audioAnalyser' = analysisCleanup(audioAnalyser)
    /\ UNCHANGED <<selectedImage, selectedAudio, imagePreview, audioPreview,
                   isGenerating, generationProgress, generatedVideo,
                   videoHistory, overlayEffects, selectedEffect, animationRef,
                   now, nRuns, lastToast, audioElement>>

\* ------------------------------------------------- generateVideo, settling
\* generateVideo without the check of selectedImage and selectedAudio
generateVideo_noValidation ==
    /\ nRuns < MaxRuns
    /\ nRuns' = nRuns + 1
    /\ isGenerating' = TRUE
    /\ generationProgress' = 0
    /\ runs' = [runs EXCEPT ![nRuns + 1] =
                  [EmptyRun EXCEPT !.gen = "progress",
                                   !.img = selectedImage,
                                   !.aud = selectedAudio,
                                   !.fx = overlayEffects,
                                   !.analyser =
                                       IF audioAnalyser = "null"
                                       THEN "null" ELSE "set"]]
    /\ UNCHANGED <<mounted, ui, generatedVideo, videoHistory,
                   animationRef, lastToast>>

\* generateVideo up to its first await
generateVideo ==
    IF selectedImage = NoFile \/ selectedAudio = NoFile
    THEN /\ lastToast' = "error: Please select both image and audio files"
         /\ UNCHANGED <<mounted, ui, isGenerating, generationProgress,
                        generatedVideo, videoHistory, animationRef, runs, nRuns>>
    ELSE /\ nRuns < MaxRuns
         /\ nRuns' = nRuns + 1
         /\ isGenerating' = TRUE
         /\ generationProgress' = 0
         /\ runs' = [runs EXCEPT ![nRuns + 1] =
                       [EmptyRun EXCEPT !.gen = "progress",
                                        !.img = selectedImage,
                                        !.aud = selectedAudio,
                                        !.fx = overlayEffects,
                                        !.analyser =
                                       IF audioAnalyser = "null"
                                       THEN "null" ELSE "set"]]
         /\ UNCHANGED <<mounted, ui, generatedVideo, videoHistory,
                        animationRef, lastToast>>

\* the Generate Video button: onClick={generateVideo}, disabled={...}
clickGenerate ==
    /\ mounted
    /\ ~(selectedImage = NoFile \/ selectedAudio = NoFile \/ isGenerating)
    /\ generateVideo

\* generateVideo called as a function, whatever the button shows
callGenerateVideo ==
    /\ mounted
    /\ generateVideo

\* The locals of a settled call (the files and effect list of its closure,
\* startTime, chunks) are read by nothing any more; its record keeps the
\* outcome and the state of the resources it acquired.
released(run) ==
    [run EXCEPT !.img = NoFile, !.aud = NoFile, !.fx = <<>>, !.drawn = <<>>,
                !.analyser = "null",
                !.elapsed = 0, !.ticks = 0, !.chunks = <<>>,
                !.emitted = <<>>]

\* a rejection that generateVideo's catch does not report
Rejected_silent(r, nr) ==
    /\ runs' = [runs EXCEPT ![r] =
                  [released(nr) EXCEPT !.cap = "rejected", !.gen = "done"]]
    /\ isGenerating' = (IF mounted THEN FALSE ELSE isGenerating)
    /\ generationProgress' = (IF mounted THEN 0 ELSE generationProgress)
    /\ UNCHANGED <<mounted, ui, generatedVideo, videoHistory, animationRef,
                   nRuns, lastToast>>

\* reject(error) of createVideoWithAudio, then generateVideo's catch and
\* finally; nr is the run's record at the throw
Rejected(r, nr) ==
    /\ runs' = [runs EXCEPT ![r] =
                  [released(nr) EXCEPT !.cap = "rejected", !.gen = "done",
                                       !.errToasts = @ + 1]]
    /\ lastToast' = "error: Failed to generate video. Please try again."
    /\ isGenerating' = (IF mounted THEN FALSE ELSE isGenerating)
    /\ generationProgress' = (IF mounted THEN 0 ELSE generationProgress)
    /\ UNCHANGED <<mounted, ui, generatedVideo, videoHistory, animationRef,
                   nRuns>>

\* onstop that only resolves
onstopCleanUp_none(run) == run

\* onstop resolving with the elapsed time of the last tick as duration
onstopResult_elapsed(run) ==
    [parts |-> run.chunks, size |-> SumSeq(run.chunks),
     duration |-> run.elapsed]

\* the value onstop resolves with:
\* { videoBlob: new Blob(chunks), duration: audioDuration }
onstopResult(run) ==
    [parts |-> run.chunks, size |-> SumSeq(run.chunks),
     duration |-> run.duration]

\* the "Clean up" lines of onstop that act on the run's own resources:
\* audioSource.disconnect() and URL.revokeObjectURL(img.src)
onstopCleanUp(run) ==
    [run EXCEPT !.source = "disconnected", !.imgUrl = "revoked"]

\* mediaRecorder.onstop, then the rest of generateVideo's try and finally,
\* then the re-render that the new generatedVideo / videoHistory cause
Resolved(r, nr) ==
    LET done == [onstopCleanUp(released(nr)) EXCEPT
                           !.cap = "resolved",
                           !.blob = onstopResult(nr).parts,
                           !.blobSize = onstopResult(nr).size,
                           !.reported = onstopResult(nr).duration,
                           !.recorder = "stopped",
                           !.videoUrl = "live",
                           !.gen = "done"]
        rs == cancelAnimationFrame([runs EXCEPT ![r] = done], animationRef)
    IN /\ IF mounted
          THEN /\ generatedVideo' = r
               /\ videoHistory' = <<r>> \o videoHistory
               /\ isGenerating' = FALSE
               /\ generationProgress' = 0
               /\ runs' = effectCleanup(rs)
                     ELSE /\ runs' = rs
               /\ UNCHANGED <<generatedVideo, videoHistory, isGenerating,
                              generationProgress>>
       /\ UNCHANGED <<mounted, selectedImage, selectedAudio, imagePreview,
                      audioPreview, overlayEffects, selectedEffect,
                      animationRef, now, nRuns, lastToast,
                   audioAnalyser, audioElement>>

\* ------------------------------------------------ createVideoWithAudio
\* one setTimeout(resolve, 800) of the progress loop; the last one goes on
\* into createVideoWithAudio up to the await of the image load
progressTimer(r, ctxOk) ==
    /\ runs[r].gen = "progress"
    /\ LET k == runs[r].step + 1
       IN IF k < Len(ProgressSteps)
          THEN /\ ctxOk
               /\ runs' = [runs EXCEPT ![r].step = k]
               /\ generationProgress' =
                     (IF mounted THEN ProgressSteps[k] ELSE generationProgress)
               /\ UNCHANGED <<mounted, ui, isGenerating, generatedVideo,
                              videoHistory, animationRef, nRuns, lastToast>>
          ELSE IF ctxOk
          THEN /\ runs' = [runs EXCEPT ![r].step = k, ![r].gen = "capture",
                                       ![r].cap = "imgLoad",
                                       ![r].imgUrl = "live"]
               /\ generationProgress' =
                     (IF mounted THEN ProgressSteps[k] ELSE generationProgress)
               /\ UNCHANGED <<mounted, ui, isGenerating, generatedVideo,
                              videoHistory, animationRef, nRuns, lastToast>>
          ELSE \* canvas.getContext('2d') is null: throw before any allocation
               Rejected(r, [runs[r] EXCEPT !.step = k])

\* img.onload / img.onerror, then up to the await of the decode
imageLoaded(r) ==
    /\ runs[r].cap = "imgLoad"
    /\ IF runs[r].img = "good"
       THEN /\ runs' = [runs EXCEPT ![r].cap = "decode",
                                    ![r].img = NoFile,
                                    ![r].audioCtx = "open"]
            /\ UNCHANGED <<mounted, ui, isGenerating, generationProgress,
                           generatedVideo, videoHistory, animationRef, nRuns,
                           lastToast>>
       ELSE Rejected(r, runs[r])

\* Math.sin(progress * Math.PI * 2) at progress 0, 1/4, 1/2, 3/4
Sin4 == <<0, 1, 0, -1>>

\* applyEffectAnimation that writes the animated values into its argument
applyEffectAnimation_inPlace(effect, elapsed) ==
    IF effect.animation = "none" THEN [arg |-> effect, ret |-> effect]
    ELSE LET s == Sin4[(elapsed % CycleUnits) + 1]
             animatedEffect ==
                CASE effect.animation = "pulse" ->
                        [effect EXCEPT
                            !.opacity = 70 + 30 * s,
                            !.size = IF effect.size # 0
                                     THEN (effect.size * (9 + 2 * s)) \div 10
                                     ELSE @]
                  [] effect.animation = "slide" ->
                        [effect EXCEPT !.x = effect.x + 10 * s]
                  [] OTHER -> effect
         IN [arg |-> animatedEffect, ret |-> animatedEffect]

\* applyEffectAnimation whose pulse swings by 0.5 around 0.7
applyEffectAnimation_wideSwing(effect, elapsed) ==
    IF effect.animation = "none" THEN [arg |-> effect, ret |-> effect]
    ELSE LET s == Sin4[(elapsed % CycleUnits) + 1]
             animatedEffect ==
                CASE effect.animation = "pulse" ->
                        [effect EXCEPT
                            !.opacity = 70 + 50 * s,
                            !.size = IF effect.size # 0
                                     THEN (effect.size * (9 + 2 * s)) \div 10
                                     ELSE @]
                  [] effect.animation = "slide" ->
                        [effect EXCEPT !.x = effect.x + 10 * s]
                  [] OTHER -> effect
         IN [arg |-> effect, ret |-> animatedEffect]

\* applyEffectAnimation whose pulse swings around the stored opacity
applyEffectAnimation_aroundStored(effect, elapsed) ==
    IF effect.animation = "none" THEN [arg |-> effect, ret |-> effect]
    ELSE LET s == Sin4[(elapsed % CycleUnits) + 1]
             animatedEffect ==
                CASE effect.animation = "pulse" ->
                        [effect EXCEPT
                            !.opacity = effect.opacity + 30 * s,
                            !.size = IF effect.size # 0
                                     THEN (effect.size * (9 + 2 * s)) \div 10
                                     ELSE @]
                  [] effect.animation = "slide" ->
                        [effect EXCEPT !.x = effect.x + 10 * s]
                  [] OTHER -> effect
         IN [arg |-> effect, ret |-> animatedEffect]

\* applyEffectAnimation(effect, elapsed): ret is the object it returns, arg
\* is its argument as the call leaves it. The animated values are written
\* to the copy { ...effect }. opacity is in hundredths (0.7 + 0.3 sin), a
\* size is multiplied by 0.9 + 0.2 sin (sizes are multiples of 10 here).
applyEffectAnimation(effect, elapsed) ==
    IF effect.animation = "none" THEN [arg |-> effect, ret |-> effect]
    ELSE LET s == Sin4[(elapsed % CycleUnits) + 1]
             animatedEffect ==
                CASE effect.animation = "pulse" ->
                        [effect EXCEPT
                            !.opacity = 70 + 30 * s,
                            !.size = IF effect.size # 0
                                     THEN (effect.size * (9 + 2 * s)) \div 10
                                     ELSE @]
                  [] effect.animation = "slide" ->
                        [effect EXCEPT !.x = effect.x + 10 * s]
                  [] OTHER -> effect
         IN [arg |-> effect, ret |-> animatedEffect]

\* the switch of drawOverlayEffects with drawSoundWave drawing on a null
\* analyser as on a working one
drawEffect_noGuard(e, analyser) ==
    [id |-> e.id, alpha |-> e.opacity, x |-> e.x, size |-> e.size,
     what |-> CASE e.type = "text" ->
                     IF e.text \notin {Undefined, ""} THEN "text" ELSE "nothing"
                [] e.type = "shape" ->
                     IF e.shape # Undefined THEN e.shape ELSE "nothing"
                [] e.type = "image" ->
                     IF e.imageUrl \notin {Undefined, ""} THEN "image"
                     ELSE "nothing"
                [] e.type = "soundwave" -> "wave"
                [] e.type = "sparkle" -> "sparkles"]

\* What the body of the forEach of drawOverlayEffects draws for the animated
\* effect e: globalAlpha, the translation, and the switch on the type.
\* drawSoundWave returns at once when the analyser or its array is null.
drawEffect(e, analyser) ==
    [id |-> e.id, alpha |-> e.opacity, x |-> e.x, size |-> e.size,
     what |-> CASE e.type = "text" ->
                     IF e.text \notin {Undefined, ""} THEN "text" ELSE "nothing"
                [] e.type = "shape" ->
                     IF e.shape # Undefined THEN e.shape ELSE "nothing"
                [] e.type = "image" ->
                     IF e.imageUrl \notin {Undefined, ""} THEN "image"
                     ELSE "nothing"
                [] e.type = "soundwave" ->
                     IF analyser = "set" THEN "wave" ELSE "nothing"
                [] e.type = "sparkle" -> "sparkles"]

\* drawOverlayEffects over the effect list fx of the closure: what was
\* drawn, and the effects of the list as the paint leaves them
drawOverlayEffects(fx, elapsed, analyser) ==
    [effects |-> [i \in 1..Len(fx) |-> applyEffectAnimation(fx[i], elapsed).arg],
     drawn |-> [i \in 1..Len(fx) |->
                  drawEffect(applyEffectAnimation(fx[i], elapsed).ret, analyser)]]

\* animate with `elapsed > audioDuration` as its stop test
animate_stopLate(run, e) ==
    IF e > run.duration
    THEN [run EXCEPT !.elapsed = e, !.stops = @ + 1,
                     !.recorder = "stopping", !.cap = "stopping"]
    ELSE [run EXCEPT !.elapsed = e, !.ticks = @ + 1,
                     !.fx = drawOverlayEffects(run.fx, e, run.analyser).effects,
                     !.drawn = drawOverlayEffects(run.fx, e, run.analyser).drawn,
                     !.log = IF "paint" \in Range(@) THEN @
                             ELSE Append(@, "paint"),
                     !.rafPending = TRUE]

\* one call of animate with elapsed = e; the run's new record
animate(run, e) ==
    IF e >= run.duration
    THEN [run EXCEPT !.elapsed = e, !.stops = @ + 1,
                     !.recorder = "stopping", !.cap = "stopping"]
    ELSE [run EXCEPT !.elapsed = e, !.ticks = @ + 1,
                     !.fx = drawOverlayEffects(run.fx, e, run.analyser).effects,
                     !.drawn = drawOverlayEffects(run.fx, e, run.analyser).drawn,
                     !.log = IF "paint" \in Range(@) THEN @
                             ELSE Append(@, "paint"),
                     !.rafPending = TRUE]

\* mediaRecorder.start(100)
mediaRecorderStart(run) ==
    [run EXCEPT !.recorder = "recording", !.cap = "rendering",
                !.log = Append(@, "encoderStart")]

\* audioSource.start(0)
audioSourceStart(run) ==
    [run EXCEPT !.source = "started", !.log = Append(@, "audioStart")]

\* the end of the executor with audioSource.start(0) moved above
\* mediaRecorder.start(100)
startRendering_audioFirst(run) ==
    animate(mediaRecorderStart(audioSourceStart(run)), 0)

\* the end of the executor: start the encoder, start the audio, take
\* startTime and call animate() for the first time
startRendering(run) ==
    animate(audioSourceStart(mediaRecorderStart(run)), 0)

\* decodeAudioData settles; on success the rest of the executor runs: the
\* stream, the source, the recorder, start, audio start, the first animate()
audioDecoded(r, d, recOk, startOk) ==
    /\ runs[r].cap = "decode"
    /\ IF runs[r].aud # "good"
       THEN Rejected(r, runs[r])
       ELSE LET wired == [runs[r] EXCEPT !.duration = d,
                                         !.aud = NoFile,
                                         !.source = "connected"]
            IN IF ~recOk
               THEN \* new MediaRecorder(...) throws
                    Rejected(r, wired)
               ELSE IF ~startOk
               THEN \* mediaRecorder.start(100) throws
                    Rejected(r, [wired EXCEPT !.recorder = "inactive"])
               ELSE LET first == startRendering(wired)
                    IN /\ runs' = [runs EXCEPT ![r] = first]
                       /\ animationRef' =
                             (IF first.rafPending THEN r ELSE animationRef)
                       /\ UNCHANGED <<mounted, ui, isGenerating,
                                      generationProgress, generatedVideo,
                                      videoHistory, nRuns, lastToast>>

\* a frame that fires although cancelAnimationFrame removed it
tick_afterCancel(r, gap) ==
    /\ runs[r].cap = "rendering"
    /\ LET next == animate([runs[r] EXCEPT !.rafPending = FALSE],
                           runs[r].elapsed + gap)
       IN /\ runs' = [runs EXCEPT ![r] = next]
          /\ animationRef' = (IF next.rafPending THEN r ELSE animationRef)
    /\ UNCHANGED <<mounted, ui, isGenerating, generationProgress,
                   generatedVideo, videoHistory, nRuns, lastToast>>

\* the animation frame run r requested fires, gap clock units after the last
tick(r, gap) ==
    /\ runs[r].rafPending
    /\ LET next == animate([runs[r] EXCEPT !.rafPending = FALSE],
                           runs[r].elapsed + gap)
       IN /\ runs' = [runs EXCEPT ![r] = next]
          /\ animationRef' = (IF next.rafPending THEN r ELSE animationRef)
    /\ UNCHANGED <<mounted, ui, isGenerating, generationProgress,
                   generatedVideo, videoHistory, nRuns, lastToast>>

\* the encoder dispatches a dataavailable event with a chunk of the given
\* size
emit(run, size) ==
    [run EXCEPT !.emitted = Append(@, size)]

\* ondataavailable that pushes every chunk, empty ones too
ondataavailable_keepEmpty(run, size) ==
    [run EXCEPT !.chunks = Append(@, size)]

\* mediaRecorder.ondataavailable with a chunk of the given size
ondataavailable(run, size) ==
    [run EXCEPT !.chunks = IF size > 0 THEN Append(@, size) ELSE @]

\* a timeslice chunk on which the promise resolves, without a stop event
dataAvailable_resolves(r, size) ==
    /\ runs[r].recorder = "recording"
    /\ Resolved(r, ondataavailable(emit(runs[r], size), size))

\* a timeslice chunk of the running encoder
dataAvailable(r, size) ==
    /\ runs[r].recorder = "recording"
    /\ runs' = [runs EXCEPT ![r] = ondataavailable(emit(runs[r], size), size)]
    /\ UNCHANGED <<mounted, ui, isGenerating, generationProgress,
                   generatedVideo, videoHistory, animationRef, nRuns,
                   lastToast>>

\* the task stop() queued: the last dataavailable, then the stop event
encoderStopped(r, size) ==
    /\ runs[r].recorder = "stopping"
    /\ Resolved(r, ondataavailable(emit(runs[r], size), size))

\* ----------------------------------------------------------- specification
User ==
    \/ \E f \in Files : handleImageSelect(f)
    \/ \E f \in Files : handleAudioSelect(f)
    \/ \E t \in CaptureEffectTypes, d \in 0..1 :
          /\ Len(overlayEffects) < MaxEffects
          /\ now + d <= MaxNow
          /\ addOverlayEffect(t, d)
    \/ \E a \in CaptureAnimations :
          /\ selectedEffect # NoEffect
          /\ updateEffect(selectedEffect.id, [animation |-> a])
    \/ \E i \in 1..MaxEffects : removeEffect(i)
    \/ \E i \in 1..MaxEffects : selectEffect(i)
    \/ \E v \in Runs : handleDelete(v)
    \/ clickGenerate
    \/ \E ok \in BOOLEAN : setupAudioAnalysis(ok)
    \/ Unmount

\* An empty timeslice chunk is dropped by ondataavailable and changes
\* nothing the component reads; SpecEncode below emits them.
Capture(r) ==
    \/ \E ctxOk \in BOOLEAN : progressTimer(r, ctxOk)
    \/ imageLoaded(r)
    \/ \E d \in 1..MaxDuration, recOk \in BOOLEAN, startOk \in BOOLEAN :
          audioDecoded(r, d, recOk, startOk)
    \/ \E gap \in 1..TickInterval : tick(r, gap)
    \/ \E size \in 1..MaxChunkSize :
          /\ Len(runs[r].emitted) < MaxChunks
          /\ dataAvailable(r, size)
    \/ \E size \in 0..MaxChunkSize : encoderStopped(r, size)

Next == User \/ \E r \in Runs : Capture(r)

Spec == Init /\ [][Next]_vars

\* The browser runs every task it has queued: a timer that is due, a load or
\* decode that finished, a requested animation frame, the encoder's stop
\* task. Nothing obliges the user to act or the encoder to emit a chunk.
Fairness ==
    \A r \in Runs :
        /\ WF_vars(\E ctxOk \in BOOLEAN : progressTimer(r, ctxOk))
        /\ WF_vars(imageLoaded(r))
        /\ WF_vars(\E d \in 1..MaxDuration, recOk \in BOOLEAN,
                      startOk \in BOOLEAN : audioDecoded(r, d, recOk, startOk))
        /\ WF_vars(\E gap \in 1..TickInterval : tick(r, gap))
        /\ WF_vars(\E size \in 0..MaxChunkSize : encoderStopped(r, size))

FairSpec == Spec /\ Fairness

\* generateVideo exercised as a function: called in any state of the mounted
\* component, not only through the button
NextCall ==
    \/ callGenerateVideo
    \/ \E f \in Files : handleImageSelect(f)
    \/ \E f \in Files : handleAudioSelect(f)
    \/ \E r \in Runs : Capture(r)

SpecCall == Init /\ [][NextCall]_vars

\* the effect editor alone: the effect selector, the effect cards and the
\* Effect Settings panel, with every kind, animation and panel control
NextEditor ==
    \/ \E t \in EffectTypes, d \in 0..1 :
          /\ Len(overlayEffects) < EditorMaxEffects
          /\ now + d <= EditorMaxNow
          /\ addOverlayEffect(t, d)
    \/ \E u \in PanelUpdates(selectedEffect) :
          /\ selectedEffect # NoEffect
          /\ updateEffect(selectedEffect.id, u)
    \/ \E i \in 1..EditorMaxEffects : removeEffect(i)
    \/ \E i \in 1..EditorMaxEffects : selectEffect(i)

SpecEditor == Init /\ [][NextEditor]_vars

\* the calls one event handler makes: up to BatchMaxCalls kinds to add
BatchCalls ==
    UNION {[1..n -> EffectTypes] : n \in 1..BatchMaxCalls}

\* addOverlayEffect, removeEffect and the effect cards exercised as
\* functions: a handler may call addOverlayEffect more than once before the
\* next render
NextBatch ==
    \/ \E types \in BatchCalls :
          /\ Len(overlayEffects) < EditorMaxEffects
          /\ now + Len(types) <= BatchMaxNow
          /\ addOverlayEffectCalls(types)
    \/ \E i \in 1..EditorMaxEffects : removeEffect(i)
    \/ \E i \in 1..EditorMaxEffects : selectEffect(i)

SpecBatch == Init /\ [][NextBatch]_vars

\* effects as the editor leaves them: an effect of any kind, with any
\* animation and a stored opacity the slider can give, a shape also resized
EditedEffects(id) ==
    {merge(newEffect(t, id), [animation |-> a, opacity |-> o]) :
        t \in EffectTypes, a \in Animations, o \in {0, 40, 80, 100}}
    \cup {merge(newEffect("shape", id),
                [animation |-> a, opacity |-> 40, size |-> 100]) :
             a \in Animations}

\* effect lists to paint: one edited effect, or a sound wave and one other
\* effect in either order
PaintLists ==
    {<<e>> : e \in EditedEffects("1")}
    \cup {<<newEffect("soundwave", "1"), newEffect(t, "2")>> :
             t \in EffectTypes}
    \cup {<<newEffect(t, "1"), newEffect("soundwave", "2")>> :
             t \in EffectTypes}

\* Painting alone: both files are selected, the effect list is one the
\* editor has produced, the analysis tap was set up or has failed; then a
\* capture of PaintDuration clock units runs without failures.
InitPaint ==
    /\ mounted = TRUE
    /\ selectedImage = "good" /\ selectedAudio = "good"
    /\ imagePreview = "good" /\ audioPreview = "url"
    /\ isGenerating = FALSE /\ generationProgress = 0
    /\ generatedVideo = 0 /\ videoHistory = <<>>
    /\ overlayEffects \in PaintLists
    /\ selectedEffect = overlayEffects[Len(overlayEffects)]
    /\ animationRef = 0
    /\ now = Len(overlayEffects)
    /\ runs = [r \in Runs |-> EmptyRun]
    /\ nRuns = 0
    /\ lastToast = "none"
    /\ audioAnalyser \in {"null", "set"}
    /\ audioElement = (IF audioAnalyser = "set" THEN "tapped" ELSE "fresh")

NextPaint ==
    \/ clickGenerate
    \/ \E r \in Runs :
          \/ progressTimer(r, TRUE)
          \/ imageLoaded(r)
          \/ audioDecoded(r, PaintDuration, TRUE, TRUE)
          \/ \E gap \in 1..TickInterval : tick(r, gap)
          \/ \E size \in 1..MaxChunkSize :
                /\ Len(runs[r].emitted) < MaxChunks
                /\ dataAvailable(r, size)
          \/ \E size \in 0..MaxChunkSize : encoderStopped(r, size)

SpecPaint == InitPaint /\ [][NextPaint]_vars

\* The encoder alone: both files are selected and there are no effects;
\* captures run without failures while the encoder emits up to
\* EncodeMaxChunks timeslice chunks of any size up to EncodeMaxChunkSize,
\* empty ones included, and a last chunk when it stops.
InitEncode ==
    /\ mounted = TRUE
    /\ selectedImage = "good" /\ selectedAudio = "good"
    /\ imagePreview = "good" /\ audioPreview = "url"
    /\ isGenerating = FALSE /\ generationProgress = 0
    /\ generatedVideo = 0 /\ videoHistory = <<>>
    /\ overlayEffects = <<>>
    /\ selectedEffect = NoEffect
    /\ animationRef = 0
    /\ now = 0
    /\ runs = [r \in Runs |-> EmptyRun]
    /\ nRuns = 0
    /\ lastToast = "none"
    /\ audioAnalyser = "null"
    /\ audioElement = "fresh"

NextEncode ==
    \/ clickGenerate
    \/ \E r \in Runs :
          \/ progressTimer(r, TRUE)
          \/ imageLoaded(r)
          \/ \E d \in 1..MaxDuration : audioDecoded(r, d, TRUE, TRUE)
          \/ \E gap \in 1..TickInterval : tick(r, gap)
          \/ \E size \in 0..EncodeMaxChunkSize :
                /\ Len(runs[r].emitted) < EncodeMaxChunks
                /\ dataAvailable(r, size)
          \/ \E size \in 0..EncodeMaxChunkSize : encoderStopped(r, size)

SpecEncode == InitEncode /\ [][NextEncode]_vars

\* ===================================================================== claims

Settled(r) == runs[r].cap \in {"resolved", "rejected"}

\* C1: every call of createVideoWithAudio eventually settles (resolves or
\* rejects), whatever the user does to effects, previews and history while
\* the capture is rendering, when the browser runs the tasks it has queued
\* (a run the component's teardown interrupts is not counted).
C1_EveryCaptureSettles ==
    \A r \in Runs : (runs[r].gen = "capture") ~> (Settled(r) \/ ~mounted)

\* C2: a capture never resolves with a zero-byte artifact: whenever
\* createVideoWithAudio has resolved, the blob it resolved with is not empty.
C2_NeverZeroByteArtifact ==
    \A r \in Runs : runs[r].cap = "resolved" => runs[r].blobSize > 0

StartOrder == <<"encoderStart", "audioStart", "paint">>

\* C3: in every run the encoder is started before audio playback, and audio
\* playback before the first tick paints; while ticks have been painted the
\* encoder has been started and the audio is playing.
C3_EncoderThenAudioThenPaint ==
    \A r \in Runs :
        /\ Len(runs[r].log) <= Len(StartOrder)
        /\ \A i \in 1..Len(runs[r].log) : runs[r].log[i] = StartOrder[i]
        /\ runs[r].ticks > 0 =>
              /\ runs[r].recorder \in {"recording", "stopping"}
              /\ runs[r].source = "started"

\* C3 witness: a run has started its encoder and audio and painted a tick
C3_Witness ==
    \E r \in Runs : runs[r].ticks > 0 /\ runs[r].log = StartOrder

\* C4: the encoder is asked to stop at the first tick whose elapsed time is
\* >= audioDuration and only there: every tick that painted had
\* elapsed < audioDuration, and the tick that called stop() had
\* audioDuration <= elapsed < audioDuration + TickInterval, whatever chunks
\* the encoder had emitted.
C4_StopAtFirstTickPastDuration ==
    \A r \in Runs :
        /\ runs[r].cap = "rendering" =>
              runs[r].elapsed < runs[r].duration /\ runs[r].stops = 0
        /\ runs[r].cap = "stopping" =>
              /\ runs[r].stops = 1
              /\ runs[r].elapsed >= runs[r].duration
              /\ runs[r].elapsed < runs[r].duration + TickInterval

\* C4 witness: stop() was called at a tick past the duration before the
\* encoder had emitted any chunk
C4_Witness ==
    \E r \in Runs :
        /\ runs[r].cap = "stopping"
        /\ runs[r].elapsed > runs[r].duration
        /\ runs[r].chunks = <<>>

Unsettled(r) == runs[r].cap \in {"imgLoad", "decode", "rendering", "stopping"}

MissingInput == selectedImage = NoFile \/ selectedAudio = NoFile

MissingInputToast == "error: Please select both image and audio files"

\* C6: while the image or the audio is missing, a call of generateVideo only
\* shows the error notification: isGenerating stays false, progress stays 0,
\* no run (canvas, object URL, audio context, encoder) is created and
\* generatedVideo and videoHistory do not change.
C6_MissingInputCreatesNothing ==
    /\ [](MissingInput =>
            /\ ~isGenerating /\ generationProgress = 0 /\ nRuns = 0
            /\ runs = [r \in Runs |-> EmptyRun]
            /\ lastToast \in {"none", MissingInputToast})
    /\ [][MissingInput =>
            UNCHANGED <<isGenerating, generationProgress, generatedVideo,
                        videoHistory, animationRef, runs, nRuns>>]_vars

\* C6 witness: generateVideo was called with one input present and the other
\* missing
C6_Witness ==
    /\ MissingInput
    /\ selectedImage # NoFile \/ selectedAudio # NoFile
    /\ lastToast = MissingInputToast

\* C7: whenever a capture has rejected, every resource it had acquired (image
\* object URL, audio context, source node, animation frame, encoder) has been
\* released.
C7_RejectReleasesEverything ==
    \A r \in Runs :
        runs[r].cap = "rejected" =>
            /\ runs[r].imgUrl # "live"
            /\ runs[r].audioCtx # "open"
            /\ runs[r].source \notin {"connected", "started"}
            /\ runs[r].recorder # "recording"
            /\ ~runs[r].rafPending

\* C8: after the component was torn down while a capture was Rendering, the
\* capture has no pending tick, its encoder is not recording, its audio
\* source is not playing and its image object URL is not live.
C8_CancelStopsEverything ==
    \A r \in Runs :
        runs[r].cancelled =>
            /\ ~runs[r].rafPending
            /\ runs[r].recorder # "recording"
            /\ runs[r].source # "started"
            /\ runs[r].imgUrl # "live"

\* C9: in every state in which a capture has resolved, no animation frame of
\* that capture is pending, its audio source node is disconnected and the
\* object URL of the background image is revoked.
C9_ResolvedIsTornDown ==
    \A r \in Runs :
        runs[r].cap = "resolved" =>
            /\ ~runs[r].rafPending
            /\ runs[r].source = "disconnected"
            /\ runs[r].imgUrl = "revoked"

\* C9 witness: a capture has resolved
C9_Witness == \E r \in Runs : runs[r].cap = "resolved"

\* C10 (the part about stop() itself): mediaRecorder.stop() is called at
\* most once per capture, and once it has been called no frame is pending
\* and no tick paints.
C10_StopAtMostOnce ==
    /\ [](\A r \in Runs : runs[r].stops <= 1
                          /\ (runs[r].stops = 1 => ~runs[r].rafPending))
    /\ [][\A r \in Runs : runs[r].stops = 1 =>
                             runs'[r].ticks <= runs[r].ticks]_vars

\* C10: mediaRecorder.stop() is called at most once per capture, after it
\* no tick is scheduled or painted, and a Rendering capture that the
\* component's teardown does not cancel calls it (exactly once).
C10_StopExactlyOnce ==
    /\ C10_StopAtMostOnce
    /\ \A r \in Runs : (runs[r].cap = "rendering")
                          ~> (runs[r].stops = 1 \/ runs[r].cancelled)

\* the render loop of run r was cancelled before audioDuration had elapsed:
\* the capture is Rendering and no frame is pending
LoopCancelled(r) == runs[r].cap = "rendering" /\ ~runs[r].rafPending

\* C11: once the pending tick of a Rendering capture has been cancelled,
\* animate never runs again for it (no paint, no mediaRecorder.stop(), the
\* loop stays cancelled), and a cancelAnimationFrame issued while nothing is
\* pending (the loop was cancelled, or the capture has resolved) changes
\* nothing of the capture: its record stays as it is, but for the chunks the
\* encoder goes on emitting, the teardown mark and the video URL the same
\* cleanup revokes.
C11_CancelIsFinalAndIdempotent ==
    [][\A r \in Runs :
          /\ LoopCancelled(r) =>
                /\ LoopCancelled(r)'
                /\ runs'[r].stops = 0
                /\ runs'[r].ticks = runs[r].ticks
          /\ (LoopCancelled(r) \/ runs[r].cap = "resolved") =>
                [runs'[r] EXCEPT !.chunks = runs[r].chunks,
                                 !.emitted = runs[r].emitted,
                                 !.cancelled = runs[r].cancelled,
                                 !.videoUrl = runs[r].videoUrl] = runs[r]]_vars

\* C11 witness: the loop of a capture of the mounted component was cancelled
\* before the duration had elapsed, and the encoder went on emitting
C11_Witness ==
    \E r \in Runs : /\ LoopCancelled(r) /\ mounted
                    /\ runs[r].elapsed < runs[r].duration
                    /\ runs[r].chunks # <<>>

\* C12: no two effects of overlayEffects have the same id, whatever
\* addOverlayEffect, updateEffect and removeEffect calls were made, also
\* when two adds fall into the same clock millisecond.
C12_EffectIdsUnique ==
    \A i, j \in 1..Len(overlayEffects) :
        i # j => overlayEffects[i].id # overlayEffects[j].id

\* a step of removeEffect that removed something
RemoveStep == Len(overlayEffects') < Len(overlayEffects)

\* the id removeEffect was called with in a RemoveStep: the id of the first
\* effect that is gone
RemovedId ==
    LET gone == {i \in 1..Len(overlayEffects) :
                    i > Len(overlayEffects')
                    \/ overlayEffects'[i] # overlayEffects[i]}
    IN overlayEffects[CHOOSE i \in gone : \A j \in gone : i <= j].id

\* C13: removeEffect(id) for an id of the list removes exactly one effect,
\* keeps every other effect in its relative order, and sets selectedEffect
\* to null exactly when the selection had that id (and leaves it as it was
\* otherwise).
C13_RemoveExactlyOne ==
    [][RemoveStep =>
          /\ Len(overlayEffects') = Len(overlayEffects) - 1
          /\ \E k \in 1..Len(overlayEffects) :
                overlayEffects' =
                    [i \in 1..(Len(overlayEffects) - 1) |->
                        IF i < k THEN overlayEffects[i]
                        ELSE overlayEffects[i + 1]]
          /\ selectedEffect' =
                (IF selectedEffect # NoEffect /\ selectedEffect.id = RemovedId
                 THEN NoEffect ELSE selectedEffect)]_vars

\* C14: the type and the id of an effect never change while it is in the
\* list: a step that keeps the length of overlayEffects (an updateEffect of
\* the settings panel, whose target is selectedEffect.id) keeps the id and
\* the type at every position and changes no effect with another id, and
\* an add keeps every effect that was there.
C14_KindAndIdImmutable ==
    [][/\ Len(overlayEffects') = Len(overlayEffects) =>
             \A i \in 1..Len(overlayEffects) :
                /\ overlayEffects'[i].id = overlayEffects[i].id
                /\ overlayEffects'[i].type = overlayEffects[i].type
                /\ overlayEffects[i].id # selectedEffect.id =>
                      overlayEffects'[i] = overlayEffects[i]
       /\ Len(overlayEffects') > Len(overlayEffects) =>
             \A i \in 1..Len(overlayEffects) :
                overlayEffects'[i] = overlayEffects[i]]_vars

\* C14 witness: of two effects with different ids, the panel moved one and
\* the other is where it was created
C14_Witness ==
    \E i, j \in 1..Len(overlayEffects) :
        /\ overlayEffects[i].id # overlayEffects[j].id
        /\ overlayEffects[i].x = 10 /\ overlayEffects[j].x = 50
        /\ selectedEffect # NoEffect
        /\ selectedEffect.id = overlayEffects[i].id

\* the step is a paint of run r: animate ran and did not stop
Painted(r) == runs'[r].ticks > runs[r].ticks

\* C15: rendering only reads the effects: a paint leaves every effect of
\* the list it paints, overlayEffects and selectedEffect as they were,
\* applyEffectAnimation leaves its argument as it was, and applying it
\* again to the same effect and time gives what was painted.
C15_PaintReadsOnly ==
    /\ [][\A r \in Runs :
             Painted(r) => /\ runs'[r].fx = runs[r].fx
                           /\ overlayEffects' = overlayEffects
                           /\ selectedEffect' = selectedEffect]_vars
    /\ [](\A r \in Runs :
             runs[r].cap = "rendering" =>
                \A i \in 1..Len(runs[r].fx) :
                   /\ applyEffectAnimation(runs[r].fx[i], runs[r].elapsed).arg
                         = runs[r].fx[i]
                   /\ runs[r].drawn[i] =
                         drawEffect(
                            applyEffectAnimation(runs[r].fx[i],
                                                 runs[r].elapsed).ret,
                            runs[r].analyser))

\* C15 witness: the second paint of a capture drew a slid effect away from
\* its stored position
C15_Witness ==
    \E r \in Runs :
        /\ runs[r].cap = "rendering" /\ runs[r].ticks >= 2
        /\ \E i \in 1..Len(runs[r].fx) :
              /\ runs[r].fx[i].animation = "slide"
              /\ runs[r].drawn[i].x # runs[r].fx[i].x

\* C18: with the analysis tap missing (the analyser of the closure is null)
\* a paint of a list that holds a soundwave effect draws something for no
\* soundwave effect, draws every other effect as it does with a working
\* tap, and requests the next frame: the capture goes on to its stop.
C18_NullAnalyserSkipsWave ==
    \A r \in Runs :
        (runs[r].cap = "rendering" /\ runs[r].analyser = "null") =>
            /\ Len(runs[r].drawn) = Len(runs[r].fx)
            /\ \A i \in 1..Len(runs[r].fx) :
                  IF runs[r].fx[i].type = "soundwave"
                  THEN runs[r].drawn[i].what = "nothing"
                  ELSE runs[r].drawn[i] =
                          drawEffect(
                             applyEffectAnimation(runs[r].fx[i],
                                                  runs[r].elapsed).ret,
                             "set")
            /\ runs[r].rafPending

\* C18 witness: without the tap, a later paint of a sound wave and a text
\* drew the text and no wave
C18_Witness ==
    \E r \in Runs :
        /\ runs[r].cap = "rendering" /\ runs[r].analyser = "null"
        /\ runs[r].ticks >= 2
        /\ \E i, j \in 1..Len(runs[r].fx) :
              /\ runs[r].fx[i].type = "soundwave"
              /\ runs[r].drawn[i].what = "nothing"
              /\ runs[r].fx[j].type = "text"
              /\ runs[r].drawn[j].what = "text"

\* C20: an effect with animation pulse is drawn with opacity 1.0 at phase
\* 0.25 and 0.4 at phase 0.75 of the cycle, whatever opacity is stored, and
\* an effect with a size is drawn with 1.1 times its size at phase 0.25.
C20_PulseValues ==
    \A r \in Runs :
        runs[r].cap = "rendering" =>
            \A i \in 1..Len(runs[r].fx) :
                runs[r].fx[i].animation = "pulse" =>
                    /\ runs[r].elapsed % CycleUnits = 1 =>
                          /\ runs[r].drawn[i].alpha = 100
                          /\ runs[r].fx[i].size # 0 =>
                                10 * runs[r].drawn[i].size
                                   = 11 * runs[r].fx[i].size
                    /\ runs[r].elapsed % CycleUnits = 3 =>
                          runs[r].drawn[i].alpha = 40

\* C20 witness: a pulsing shape of size 50 stored with opacity 0.4 was
\* painted at phase 0.25 with size 55 and opacity 1.0
C20_Witness ==
    \E r \in Runs :
        /\ runs[r].cap = "rendering" /\ runs[r].elapsed = 1
        /\ \E i \in 1..Len(runs[r].fx) :
              /\ runs[r].fx[i].animation = "pulse"
              /\ runs[r].fx[i].opacity = 40
              /\ runs[r].fx[i].size = 50
              /\ runs[r].drawn[i].size = 55
              /\ runs[r].drawn[i].alpha = 100

\* C19: every step that adds an effect appends one with x = 50, y = 50,
\* opacity 0.8, animation none and the defaults of its kind (text: 'Your
\* Text Here', 24, Arial; shape: circle, 50; image: empty imageUrl;
\* soundwave: #00ffff, 2; sparkle: 50, 3, #ffff00), and selects it.
C19_KindDefaults ==
    [][Len(overlayEffects') = Len(overlayEffects) + 1 =>
          LET e == overlayEffects'[Len(overlayEffects')]
          IN /\ e.type \in EffectTypes
             /\ e.x = 50 /\ e.y = 50 /\ e.opacity = 80
             /\ e.animation = "none"
             /\ selectedEffect' = e
             /\ e.type = "text" =>
                   /\ e.text = "Your Text Here"
                   /\ e.fontSize = 24 /\ e.fontFamily = "Arial"
             /\ e.type = "shape" => e.shape = "circle" /\ e.size = 50
             /\ e.type = "image" => e.imageUrl = ""
             /\ e.type = "soundwave" =>
                   /\ e.soundwaveColor = "#00ffff"
                   /\ e.soundwaveThickness = 2
             /\ e.type = "sparkle" =>
                   /\ e.sparkleDensity = 50 /\ e.sparkleSize = 3
                   /\ e.color = "#ffff00"]_vars

\* C19 witness: a sparkle effect was added after another effect and is the
\* selected one, with its defaults
C19_Witness ==
    /\ Len(overlayEffects) = 2
    /\ selectedEffect = overlayEffects[2]
    /\ selectedEffect.type = "sparkle"
    /\ selectedEffect.sparkleDensity = 50
    /\ selectedEffect.color = "#ffff00"

\* C16: only a capture that resolved on its encoder's stop event is shown
\* as generatedVideo or listed in videoHistory; a run that fails leaves
\* generatedVideo and videoHistory as they were and shows exactly one error
\* notification, and no other run shows one.
C16_ArtifactOnlyAfterStop ==
    /\ [](\A r \in Runs :
             /\ (generatedVideo = r \/ r \in Range(videoHistory)) =>
                   /\ runs[r].cap = "resolved"
                   /\ runs[r].recorder = "stopped"
             /\ runs[r].errToasts =
                   (IF runs[r].cap = "rejected" THEN 1 ELSE 0))
    /\ [][\A r \in Runs :
             (runs'[r].cap = "rejected" /\ runs[r].cap # "rejected") =>
                UNCHANGED <<generatedVideo, videoHistory>>]_vars

\* C16 witness: a run failed while the video of an earlier run was shown
C16_Witness ==
    \E r \in Runs :
        /\ runs[r].cap = "rejected"
        /\ generatedVideo \in 1..(r - 1)
        /\ videoHistory = <<generatedVideo>>

\* C17: whenever createVideoWithAudio has resolved, the duration it
\* resolved with is the audioDuration decoded in that run.
C17_DurationIsDecodedDuration ==
    \A r \in Runs :
        runs[r].cap = "resolved" => runs[r].reported = runs[r].duration

\* C17 witness: a capture of the longest audio resolved with chunks
C17_Witness ==
    \E r \in Runs :
        /\ runs[r].cap = "resolved"
        /\ runs[r].duration = MaxDuration
        /\ runs[r].blobSize > 0

\* the stages of createVideoWithAudio a run may move between in one step:
\* Configuring (the call, the image load), Decoding, Rendering, Finalizing
\* (stop() called, stop event awaited), then Completed; Failed from the
\* stages in which the executor's try block is running
StageSteps ==
    {<<"none", "imgLoad">>, <<"imgLoad", "decode">>,
     <<"decode", "rendering">>, <<"rendering", "stopping">>,
     <<"stopping", "resolved">>,
     <<"none", "rejected">>, <<"imgLoad", "rejected">>,
     <<"decode", "rejected">>, <<"rendering", "rejected">>,
     <<"stopping", "rejected">>}

\* C21: a capture moves only Configuring -> Decoding -> Rendering ->
\* Finalizing -> Completed, or from a non-terminal stage to Failed; the
\* encoder is not started and nothing is painted before the decode has
\* completed, the promise resolves only on the encoder's stop event, and a
\* settled run stays as it settled.
C21_StagesInOrder ==
    /\ [][\A r \in Runs :
             \/ runs'[r].cap = runs[r].cap
             \/ <<runs[r].cap, runs'[r].cap>> \in StageSteps]_vars
    /\ [][\A r \in Runs :
             /\ runs'[r].cap = "resolved" /\ runs[r].cap # "resolved" =>
                   runs[r].recorder = "stopping" /\ runs[r].stops = 1
             /\ Settled(r) =>
                   /\ runs'[r].cap = runs[r].cap
                   /\ runs'[r].blobSize = runs[r].blobSize
                   /\ runs'[r].reported = runs[r].reported
                   /\ runs'[r].errToasts = runs[r].errToasts]_vars
    /\ [](\A r \in Runs :
             runs[r].cap \in {"none", "imgLoad", "decode"} =>
                /\ runs[r].recorder \in {"none", "inactive"}
                /\ runs[r].log = <<>> /\ runs[r].ticks = 0
                /\ ~runs[r].rafPending)

\* C21 witness: a run went through every stage: it started encoder, audio
\* and painting in Rendering, called stop() once and resolved
C21_Witness ==
    \E r \in Runs :
        /\ runs[r].cap = "resolved"
        /\ runs[r].log = StartOrder
        /\ runs[r].stops = 1
        /\ runs[r].recorder = "stopped"

C24_OpacityInRange ==
    /\ \A i \in 1..Len(overlayEffects) :
          overlayEffects[i].opacity \in 0..100
    /\ selectedEffect # NoEffect => selectedEffect.opacity \in 0..100
    /\ \A r \in Runs :
          /\ \A i \in 1..Len(runs[r].fx) : runs[r].fx[i].opacity \in 0..100
          /\ \A i \in 1..Len(runs[r].drawn) :
                runs[r].drawn[i].alpha \in 0..100

\* C24 witness: an effect stored with opacity 0 pulses and was painted at
\* the trough of the cycle
C24_Witness ==
    \E r \in Runs :
        /\ runs[r].cap = "rendering"
        /\ runs[r].elapsed % CycleUnits = 3
        /\ \E i \in 1..Len(runs[r].fx) :
              /\ runs[r].fx[i].animation = "pulse"
              /\ runs[r].fx[i].opacity = 0
              /\ runs[r].drawn[i].alpha = 40

\* C25: while the component is mounted, a Rendering capture always has its
\* next animation frame pending: no change of effects, previews,
\* generatedVideo or videoHistory cancels it.
C25_FrameStaysPending ==
    \A r \in Runs :
        (mounted /\ runs[r].cap = "rendering") => runs[r].rafPending

\* C26: while the component is mounted, the object URL of every video
\* listed in videoHistory or shown as generatedVideo has not been revoked.
C26_ListedVideoUrlLive ==
    mounted =>
        \A v \in Range(videoHistory) \cup ({generatedVideo} \ {0}) :
            runs[v].videoUrl = "live"

\* the image or the audio has been cleared and no new file selected since
ClearedInput == selectedImage = "empty" \/ selectedAudio = "empty"

\* C27: while an input is cleared, no call of generateVideo starts a
\* capture (the Generate button is disabled).
C27_ClearedInputStartsNothing ==
    [][ClearedInput => nRuns' = nRuns]_vars

\* C28: whenever an effect is selected, exactly one effect of
\* overlayEffects has its id, and that effect equals selectedEffect in
\* every field.
C28_SelectionMatchesList ==
    selectedEffect # NoEffect =>
        /\ Cardinality({i \in 1..Len(overlayEffects) :
                           overlayEffects[i].id = selectedEffect.id}) = 1
        /\ \E i \in 1..Len(overlayEffects) :
              overlayEffects[i] = selectedEffect

C23_ChunksAccumulate ==
    [][\A r \in Runs :
          /\ runs'[r].chunks =
                FilterSeq(runs'[r].emitted, 1..EncodeMaxChunkSize)
          /\ (runs'[r].recorder = "recording"
                /\ runs'[r].emitted # runs[r].emitted) =>
                /\ runs'[r].rafPending = runs[r].rafPending
                /\ runs'[r].ticks = runs[r].ticks
                /\ runs'[r].elapsed = runs[r].elapsed
                /\ runs'[r].cap = runs[r].cap
          /\ (runs'[r].cap = "resolved" /\ runs[r].cap # "resolved") =>
                /\ \E last \in 0..EncodeMaxChunkSize :
                      runs'[r].blob =
                          FilterSeq(Append(runs[r].emitted, last),
                                    1..EncodeMaxChunkSize)
                /\ runs'[r].blobSize = SumSeq(runs'[r].blob)]_vars

\* C23 witness: the running encoder has emitted a chunk of size 2, an empty
\* one and a chunk of size 1 while frames were painted, and a frame is
\* pending
C23_Witness ==
    \E r \in Runs : /\ runs[r].recorder = "recording"
                    /\ runs[r].emitted = <<2, 0, 1>>
                    /\ runs[r].chunks = <<2, 1>>
                    /\ runs[r].ticks > 0
                    /\ runs[r].rafPending

\* C30: an analyser is set only on an audio element no source was made of
\* before (at most once per element), and the audioAnalyser of the state is
\* never one whose disconnect() an effect cleanup has called.
C30_AnalyserStaysConnected ==
    [][/\ (audioAnalyser' = "set" /\ audioAnalyser # "set") =>
             (audioElement = "fresh" /\ audioElement' = "tapped")
       /\ mounted' => audioAnalyser' # "disconnected"]_vars

====
